---- MODULE Spec2Model ----
(***************************************************************************)
(* Foundry Agent Accelerator.                                              *)
(*                                                                         *)
(* Five state machines share this module:                                  *)
(*   Spec         the chat client of AgentPreview.tsx: onSend, the fetch   *)
(*                of /chat, and handleMessages.readStream, which reads the *)
(*                response body chunk by chunk, cuts it into lines and     *)
(*                handles one SSE event per data line;                     *)
(*   SpecPublish  the start-up version gate (config_hash compared with     *)
(*                the hash of the last deployment);                        *)
(*   SpecRelay    the /chat endpoint's generate_response, which turns the  *)
(*                provider's stream into SSE frames and approves the tool  *)
(*                calls the agent asks approval for;                       *)
(*   SpecCitation the citation formatter applied to a response text;       *)
(*   SpecChat     the chat input of ChatInput.tsx (text, attachments) and  *)
(*                the client over several turns of one conversation.       *)
(* A text is a sequence of symbols.  The symbols of the wire are the line  *)
(* terminator, the carriage return, the "data: " prefix and the tokens of  *)
(* a JSON text; the symbols of a message content are its words.            *)
(***************************************************************************)
EXTENDS Integers, Sequences, FiniteSets, TLC

\* ------------------------------------------------------------------ bounds
\* Largest number of SSE frames in one /chat response body.
MaxEvents == 3

\* Largest number of agent versions the provider is asked to create.
MaxVersions == 2

\* Largest number of text chunks the provider delivers in one turn.
MaxChunks == 3

\* Largest number of symbols (words and citation markers) of a response text.
MaxTextLen == 4

\* Largest number of messages the user sends.
MaxTurns == 2

\* Largest number of files picked at once, and of pending attachments.
MaxFiles == 1

\* Largest number of frames of a body made to tell the event kinds apart.
MaxMarks == 2

\* Largest number of pieces (texts and images) of a reply that is rendered.
MaxPieces == 3

\* ----------------------------------------------------------------- strings
NL == "\n"
CR == "\r"
DATA_PREFIX == "data: "
DefaultErrorMessage == <<"An error occurred.">>

RECURSIVE indexOf(_, _, _)
\* String.prototype.indexOf, 1-based; 0 when the symbol does not occur
\* (the code's -1).  i is the position the search starts from.
indexOf(s, c, i) ==
    IF i > Len(s) THEN 0
    ELSE IF s[i] = c THEN i
    ELSE indexOf(s, c, i + 1)

isWhitespace(c) == c \in {CR, " ", NL}

RECURSIVE trimStart(_)
trimStart(s) ==
    IF s = <<>> THEN s
    ELSE IF isWhitespace(Head(s)) THEN trimStart(Tail(s))
    ELSE s

RECURSIVE trimEnd(_)
trimEnd(s) ==
    IF s = <<>> THEN s
    ELSE IF isWhitespace(s[Len(s)]) THEN trimEnd(SubSeq(s, 1, Len(s) - 1))
    ELSE s

\* String.prototype.trim
trim(s) == trimEnd(trimStart(s))

\* chunk.startsWith("data: ")
startsWith(s, p) == Len(s) >= 1 /\ s[1] = p

\* chunk.slice(6): the text after the six characters of the prefix
slice6(s) == Tail(s)

\* ------------------------------------------------------------ JSON payloads
\* The object bodies a payload can carry, one symbol each.
ObjectBodies ==
    {"msg_a", "msg_b", "cmp_c", "end", "err_e", "err_", "err_end", "err_cmp",
     "oth_u", "obj_"}

\* The value JSON.parse returns for a text.  A text is an object when it is
\* exactly "{" body "}", it is the literal null, and anything else (here a
\* text cut short before its closing brace) is a SyntaxError.
JSONparse(t) ==
    IF Len(t) = 3 /\ t[1] = "{" /\ t[3] = "}" /\ t[2] \in ObjectBodies
    THEN [ok |-> TRUE, isNull |-> FALSE, body |-> t[2]]
    ELSE IF t = <<"null">>
    THEN [ok |-> TRUE, isNull |-> TRUE, body |-> "null"]
    ELSE [ok |-> FALSE, isNull |-> FALSE, body |-> "syntax"]

\* The error looked at only when the payload has no type.
hasError_untyped(b) == b \in {"err_e", "err_"}

\* data.error is truthy
hasError(b) == b \in {"err_e", "err_", "err_end", "err_cmp"}

\* data.error.message
errorMessage(b) ==
    IF b \in {"err_e", "err_end", "err_cmp"} THEN <<"e">> ELSE <<>>

\* data.type
typeOf(b) ==
    CASE b \in {"msg_a", "msg_b"} -> "message"
      [] b \in {"cmp_c", "err_cmp"} -> "completed_message"
      [] b \in {"end", "err_end"} -> "stream_end"
      [] b = "oth_u" -> "other"
      [] OTHER -> "undefined"

\* data.content, as the string operations of the handler see it: a payload
\* without a content field gives the text "undefined" when it is appended.
contentOf(b) ==
    CASE b = "msg_a" -> <<"a">>
      [] b = "msg_b" -> <<"b">>
      [] b \in {"cmp_c", "err_cmp"} -> <<"c">>
      [] b = "oth_u" -> <<"u">>
      [] b = "obj_" -> <<"undefined">>
      [] OTHER -> <<>>

\* ------------------------------------------------------------ response body
\* The frames a response body is made of.  Bad is a data line whose JSON is
\* cut short, Null a data line whose JSON is the literal null; Db is written
\* with a CR LF line end.
Kinds == {"Da", "Db", "Cc", "End", "Err", "Bad", "Null"}

Frame(k) ==
    CASE k = "Da"   -> <<DATA_PREFIX, "{", "msg_a", "}", NL, NL>>
      [] k = "Db"   -> <<DATA_PREFIX, "{", "msg_b", "}", CR, NL, NL>>
      [] k = "Cc"   -> <<DATA_PREFIX, "{", "cmp_c", "}", NL, NL>>
      [] k = "End"  -> <<DATA_PREFIX, "{", "end", "}", NL, NL>>
      [] k = "Err"  -> <<DATA_PREFIX, "{", "err_e", "}", NL, NL>>
      [] k = "Bad"  -> <<DATA_PREFIX, "{", "msg_a", NL, NL>>
      [] k = "Null" -> <<DATA_PREFIX, "null", NL, NL>>
      [] k = "ErrEnd" -> <<DATA_PREFIX, "{", "err_end", "}", NL, NL>>
      [] k = "ErrCmp" -> <<DATA_PREFIX, "{", "err_cmp", "}", NL, NL>>
      [] k = "Oth"  -> <<DATA_PREFIX, "{", "oth_u", "}", NL, NL>>
      [] k = "Obj"  -> <<DATA_PREFIX, "{", "obj_", "}", NL, NL>>

RECURSIVE Wire(_)
\* The bytes of a response body that carries the frames ks.
Wire(ks) == IF ks = <<>> THEN <<>> ELSE Frame(Head(ks)) \o Wire(Tail(ks))

Bodies == UNION {[1..n -> Kinds] : n \in 0..MaxEvents}

\* Frames whose payload carries several marks, or none: an error together
\* with the type stream_end or completed_message, a type that is none of the
\* known ones, and an object without any field.
MarkKinds == {"Da", "Cc", "End", "Err", "ErrEnd", "ErrCmp", "Oth", "Obj"}

MarkBodies == UNION {[1..n -> MarkKinds] : n \in 0..MaxMarks}


\* ------------------------------------------------------ agent configuration
AgentNames == {"agent-1", "agent-2"}
ModelNames == {"gpt-a", "gpt-b"}
SystemPrompts == {"prompt-1", "prompt-2"}

\* The entries of the tools mapping of agent.yaml, in file order.
ToolOrder == <<"code_interpreter", "bing_search">>
ToolNames == {ToolOrder[i] : i \in 1..Len(ToolOrder)}
ToolStates == {"absent", "disabled", "enabled"}

Configs ==
    [name : AgentNames, model : ModelNames, instructions : SystemPrompts,
     tools : [ToolNames -> ToolStates]]

\* agent.yaml as shipped: code_interpreter enabled, bing_search disabled.
DefaultConfig ==
    [name |-> "agent-1", model |-> "gpt-a", instructions |-> "prompt-1",
     tools |-> [t \in ToolNames |->
                  IF t = "code_interpreter" THEN "enabled" ELSE "disabled"]]

\* An entry serialised only when the tool is enabled.
toolEntry_enabledOnly(t, state) ==
    IF state = "enabled" THEN <<t, "enabled:", "true">> ELSE <<>>

\* One entry of tools_config: a tool of the mapping with its enabled flag,
\* whether the flag is true or false; a tool that is not in the mapping has
\* no entry.
toolEntry(t, state) ==
    IF state = "absent" THEN <<>>
    ELSE <<t, "enabled:", IF state = "enabled" THEN "true" ELSE "false">>

RECURSIVE toolTokens(_, _)
\* json.dumps of tools_config: the entries of the mapping in file order,
\* from entry i on.
toolTokens(tools, i) ==
    IF i > Len(ToolOrder) THEN <<>>
    ELSE toolEntry(ToolOrder[i], tools[ToolOrder[i]])
         \o toolTokens(tools, i + 1)

\* The serialisation with the model name left out.
jsonDumps_noModel(c) ==
    <<"{", "instructions:", c.instructions, "tools:", "{">>
    \o toolTokens(c.tools, 1) \o <<"}", "}">>

\* json.dumps({"instructions": system_prompt, "tools": tools_config,
\*             "model": model_name})
jsonDumps(c) ==
    <<"{", "instructions:", c.instructions, "tools:", "{">>
    \o toolTokens(c.tools, 1) \o <<"}", "model:", c.model, "}">>

\* The symbols a serialisation is written with; a symbol's code is its
\* position in this list.
Alphabet ==
    <<"{", "}", "instructions:", "tools:", "model:", "enabled:", "true",
      "false", "code_interpreter", "bing_search", "prompt-1", "prompt-2",
      "gpt-a", "gpt-b">>

Code(sym) == CHOOSE i \in 1..Len(Alphabet) : Alphabet[i] = sym

\* The digest is computed at a reduced width: a multiplicative hash of the
\* symbol codes modulo a 24-bit prime.
HashMul == 31
HashMod == 16777213

RECURSIVE md5(_, _)
\* hashlib.md5(text).hexdigest(), folded over the text from the state h
md5(text, h) ==
    IF text = <<>> THEN h
    ELSE md5(Tail(text), (h * HashMul + Code(Head(text))) % HashMod)

\* config_hash
config_hash(c) == md5(jsonDumps(c), 7)

\* The fingerprint of every configuration, as config_hash computes it.
fingerprintOf == [c \in Configs |-> config_hash(c)]

\* The gate opened on every start.
needsPublish_always(hash, previous) == TRUE

\* if config_hash != previous_hash  (previous_hash is None on the first run)
needsPublish(hash, previous) ==
    ~previous.present \/ hash # previous.fingerprint

\* VersionStore: no record yet
NoRecord == [present |-> FALSE, fingerprint |-> 0, agentVersion |-> 0]

\* What create_version can raise.
PublishErrors == {"HttpResponseError", "ServiceRequestError"}

\* The start-up error handed to the caller, with nothing wrapped around it.
propagate_wrapped(err) == IF err = "none" THEN "none" ELSE "StartupError"

\* The error of the publish collaborator reaches the caller as raised.
propagate(err) == err

\* A failed save counted as a failed start.
resultOf_saveFatal(publishOk, saveOk) ==
    IF publishOk /\ saveOk THEN "published" ELSE "error"

\* The outcome of a start that had to publish: a failed publish is fatal, a
\* failed save is only a warning.
resultOf(publishOk, saveOk) == IF publishOk THEN "published" ELSE "error"

\* The record written whatever create_version did.
writes_always(publishOk, saveOk) == saveOk

\* The record is written after a successful publish, when the save succeeds.
writes(publishOk, saveOk) == publishOk /\ saveOk

\* The observation of the last start: what it found, what it did, what the
\* caller got, and whether the configuration was edited since.
NoCall == [made |-> FALSE, priorPresent |-> FALSE, priorMatches |-> FALSE,
           publishes |-> 0, saves |-> 0, result |-> "none",
           raised |-> "none", propagated |-> "none", handle |-> 0,
           afterLostSave |-> FALSE, edited |-> FALSE]

\* ---------------------------------------------------------- outbound frames
\* f"data: {json.dumps(payload)}\n\n"
sse(payload) == [prefix |-> DATA_PREFIX, json |-> payload,
                 terminator |-> <<NL, NL>>]

\* A message payload without its type field.
messagePayload_untyped(chunk) == [content |-> chunk]

\* {'type': 'message', 'content': chunk}
messagePayload(chunk) == [type |-> "message", content |-> chunk]

\* {"type":"completed_message","content":"<final text>"}
completedPayload(text) == [type |-> "completed_message", content |-> text]

\* {'type': 'stream_end'}
endPayload == [type |-> "stream_end"]

\* {"error":{"message":"<text>"}}
errorPayload(text) == [error |-> [message |-> text]]

\* A generator that finishes without a closing frame.
endFrames_none == <<>>

\* yield f"data: {json.dumps({'type': 'stream_end'})}\n\n"
endFrames == <<sse(endPayload)>>

\* What agent_response can do in one turn: deliver up to MaxChunks events,
\* each a text chunk or a request to approve a tool call, then possibly the
\* completed text, and then either run out or raise.
TextChunks == {<<"a">>, <<"b">>}

\* The ids of the tool calls the agent asks approval for.
RequestIds == {<<"r1">>, <<"r2">>}

ChunkScripts ==
    UNION {[1..n -> {[kind |-> "chunk", text |-> t] : t \in TextChunks}
                    \cup {[kind |-> "approval_request", text |-> r] :
                            r \in RequestIds}]
             : n \in 0..MaxChunks}

ProviderScripts ==
    {cs \o fin \o <<[kind |-> e, text |-> <<>>]>> :
        cs \in ChunkScripts,
        fin \in {<<>>, <<[kind |-> "completed", text |-> <<"c">>]>>},
        e \in {"exhausted", "raise"}}

\* ToolApprovalBridge: its two states.
Idle == [state |-> "Idle", request |-> <<>>]

AwaitingApproval(id) == [state |-> "AwaitingApproval", request |-> id]

\* The bridge left waiting after the approval was sent.
afterApproval_stuck(b) == IF b.state = "AwaitingApproval" THEN b ELSE Idle

\* The bridge goes back to Idle once the approval round trip is over.
afterApproval(b) == Idle

\* The stream kept open after the approval could not be sent.
afterApprovalFailure_continues == "streaming"

\* A failed approval round trip ends the turn.
afterApprovalFailure == "closed"

\* --------------------------------------------------------- citation markers
\* The raw citation markers of the provider: an index pair and the name of
\* the source.  Two of them name the same source.
Markers == {"[4:0|doc.md]", "[4:1|guide.md]", "[5:0|doc.md]"}

Words == {"x"}

\* The title of a marker's source, cleaned of its extension.
titleOf(m) == IF m = "[4:1|guide.md]" THEN "guide" ELSE "doc"

\* The footnote reference bearing ordinal n.
FootnoteRefs == <<"[1]", "[2]", "[3]">>

footnote(n) == FootnoteRefs[n]

\* Every marker numbered anew, whether seen before or not.
ordinalOf_renumbered(seen, m) == Len(seen) + 1

\* The ordinal of marker m when the markers in seen have ordinals 1, 2, ...:
\* its own when it was seen before, the next free one otherwise.
ordinalOf(seen, m) ==
    IF indexOf(seen, m, 1) # 0 THEN indexOf(seen, m, 1) ELSE Len(seen) + 1

RECURSIVE scan(_, _, _)
\* The left-to-right scan: rest is the text still to read, seen the markers
\* met so far in first-seen order, done the text written so far.
scan(rest, seen, done) ==
    IF rest = <<>>
    THEN [text |-> done,
          sources |-> [k \in 1..Len(seen) |->
                         [ordinal |-> k, title |-> titleOf(seen[k])]]]
    ELSE IF Head(rest) \in Markers
    THEN LET n == ordinalOf(seen, Head(rest))
         IN  scan(Tail(rest),
                  IF n > Len(seen) THEN Append(seen, Head(rest)) ELSE seen,
                  Append(done, footnote(n)))
    ELSE scan(Tail(rest), seen, Append(done, Head(rest)))

\* CitationFormatter.format(text)
format(text) == scan(text, <<>>, <<>>)

Texts == UNION {[1..n -> Words \cup Markers] : n \in 0..MaxTextLen}

\* format has not been called.
NoFormat == [text |-> <<>>, sources |-> <<>>]

\* ------------------------------------------------------- images in a reply
\* A reply is a sequence of tokens.  The literals of the two patterns of
\* extractImagesFromContent are tokens of their own; every other token
\* stands for text without the characters the patterns look for.
DataUri == "data:image/png;base64,A"

HttpUrl == "http://u/i.png"

\* The tokens that hold the character a negated class leaves out:
\* [^>], [^"], [^\]] and [^)].
Excluded ==
    [gt       |-> {">"},
     quote    |-> {"\"", "src=\"", "alt=\""},
     rbracket |-> {"]("},
     rparen   |-> {")"}]

Lit(tok) == [kind |-> "lit", arg |-> tok]

Star(class) == [kind |-> "star", arg |-> class]

Opt(tok) == [kind |-> "opt", arg |-> tok]

\* /<img[^>]*src="(data:image\/[^"]+)"[^>]*alt="([^"]*)"[^>]*\/?>/gi
imgRegex ==
    <<Lit("<img"), Star("gt"), Lit("src=\""), Lit(DataUri), Star("quote"),
      Lit("\""), Star("gt"), Lit("alt=\""), Star("quote"), Lit("\""),
      Star("gt"), Opt("/"), Lit(">")>>

\* /!\[([^\]]*)\]\((data:image\/[^)]+)\)/gi
mdImgRegex ==
    <<Lit("!["), Star("rbracket"), Lit("]("), Lit(DataUri), Star("rparen"),
      Lit(")")>>

\* The length of the longest run of tokens of a class that starts at p.
RunLength(class, t, p) ==
    LET stops == {q \in p..Len(t) : t[q] \in Excluded[class]}
    IN  IF stops = {} THEN Len(t) - p + 1
        ELSE (CHOOSE q \in stops : \A r \in stops : q <= r) - p

RECURSIVE matchFrom(_, _, _, _)
RECURSIVE tryRepeat(_, _, _, _, _)
\* The backtracking match of the elements k.. of a pattern at position p:
\* the positions at which the elements start, and the position behind the
\* match; the empty sequence when there is no match.  A starred class takes
\* the longest run first and gives tokens back one by one.
matchFrom(re, k, t, p) ==
    IF k > Len(re) THEN <<p>>
    ELSE LET e    == re[k]
             here == p <= Len(t) /\ t[p] = e.arg
         IN  CASE e.kind = "lit" ->
                    IF ~here THEN <<>>
                    ELSE LET r == matchFrom(re, k + 1, t, p + 1)
                         IN  IF r = <<>> THEN <<>> ELSE <<p>> \o r
               [] e.kind = "opt" ->
                    LET r == IF here THEN matchFrom(re, k + 1, t, p + 1)
                             ELSE <<>>
                        s == matchFrom(re, k + 1, t, p)
                    IN  IF r # <<>> THEN <<p>> \o r
                        ELSE IF s # <<>> THEN <<p>> \o s
                        ELSE <<>>
               [] e.kind = "star" ->
                    tryRepeat(re, k, t, p, RunLength(e.arg, t, p))

tryRepeat(re, k, t, p, n) ==
    LET r == matchFrom(re, k + 1, t, p + n)
    IN  IF r # <<>> THEN <<p>> \o r
        ELSE IF n = 0 THEN <<>>
        ELSE tryRepeat(re, k, t, p, n - 1)

RECURSIVE execAll(_, _, _, _, _, _)
\* while ((match = regex.exec(content)) !== null) allMatches.push(...): the
\* matches of a global pattern from left to right, each search starting
\* behind the match before.  srcAt and altAt are the elements at which the
\* two groups start.
execAll(re, t, from, srcAt, altAt, acc) ==
    LET starts == {s \in from..Len(t) : matchFrom(re, 1, t, s) # <<>>}
    IN  IF starts = {} THEN acc
        ELSE LET s   == CHOOSE x \in starts : \A y \in starts : x <= y
                 ps  == matchFrom(re, 1, t, s)
                 end == ps[Len(ps)]
                 alt == SubSeq(t, ps[altAt], ps[altAt + 1] - 1)
             IN  execAll(re, t, end, srcAt, altAt,
                         Append(acc,
                                [index  |-> s,
                                 length |-> end - s,
                                 src    |-> SubSeq(t, ps[srcAt],
                                                   ps[srcAt + 2] - 1),
                                 alt    |-> IF alt = <<>>
                                            THEN <<"Generated Image">>
                                            ELSE alt]))

RECURSIVE sortByIndex(_)
\* allMatches.sort((a, b) => a.index - b.index): a stable insertion sort.
sortByIndex(ms) ==
    IF ms = <<>> THEN <<>>
    ELSE LET rest == sortByIndex(SubSeq(ms, 1, Len(ms) - 1))
             m    == ms[Len(ms)]
             n    == Cardinality({i \in 1..Len(rest) :
                                      rest[i].index <= m.index})
         IN  SubSeq(rest, 1, n) \o <<m>> \o SubSeq(rest, n + 1, Len(rest))

\* The matches of the HTML pattern, then those of the markdown pattern.
allMatches(content) ==
    sortByIndex(execAll(imgRegex, content, 1, 4, 9, <<>>)
                \o execAll(mdImgRegex, content, 1, 4, 2, <<>>))

TextSegment(text) == [type |-> "text", content |-> text, span |-> text]

\* An image segment; span is the part of the content that was matched, which
\* the code leaves out of the segment.
ImageSegment(content, m) ==
    [type |-> "image", content |-> m.src, alt |-> m.alt,
     span |-> SubSeq(content, m.index, m.index + m.length - 1)]

RECURSIVE buildSegments(_, _, _, _)
\* for (const m of allMatches) { ... }, and the remaining text.  lastIndex is
\* the position of the next token not yet covered.
buildSegments(content, ms, lastIndex, segments) ==
    IF ms = <<>>
    THEN IF lastIndex <= Len(content)
         THEN Append(segments,
                     TextSegment(SubSeq(content, lastIndex, Len(content))))
         ELSE segments
    ELSE LET m      == Head(ms)
             before == IF m.index > lastIndex
                       THEN Append(segments,
                                   TextSegment(SubSeq(content, lastIndex,
                                                      m.index - 1)))
                       ELSE segments
         IN  buildSegments(content, Tail(ms), m.index + m.length,
                           Append(before, ImageSegment(content, m)))

\* extractImagesFromContent(content)
extractImagesFromContent(content) ==
    LET segments == buildSegments(content, allMatches(content), 1, <<>>)
    IN  IF Len(segments) = 0 THEN <<TextSegment(content)>> ELSE segments

\* The pieces replies are made of: plain text, an HTML image and a markdown
\* image with a data URI, a markdown image with an http URL, an HTML image
\* whose alt text holds a markdown image, and a markdown image whose alt
\* text holds an HTML image.
Piece(k) ==
    CASE k = "Text"   -> <<"x">>
      [] k = "Html"   -> <<"<img", "src=\"", DataUri, "\"", "alt=\"", "x",
                           "\"", ">">>
      [] k = "Md"     -> <<"![", "x", "](", DataUri, ")">>
      [] k = "MdHttp" -> <<"![", "x", "](", HttpUrl, ")">>
      [] k = "HtmlMd" -> <<"<img", "src=\"", DataUri, "\"", "alt=\"", "![",
                           "x", "](", DataUri, ")", "\"", "/", ">">>
      [] k = "MdHtml" -> <<"![", "<img", "src=\"", DataUri, "\"", "alt=\"",
                           "\"", ">", "](", DataUri, ")">>

PieceKinds == {"Text", "Html", "Md", "MdHttp", "HtmlMd", "MdHtml"}

RECURSIVE Pieces(_)
Pieces(ks) == IF ks = <<>> THEN <<>> ELSE Piece(Head(ks)) \o Pieces(Tail(ks))

Contents ==
    {Pieces(ks) : ks \in UNION {[1..n -> PieceKinds] : n \in 0..MaxPieces}}

\* The segments of every content.
segmentsOf == [content \in Contents |-> extractImagesFromContent(content)]

\* ---------------------------------------------------------------- attachments
SUPPORTED_IMAGE_TYPES == {"image/jpeg", "image/png", "image/gif", "image/webp"}

SUPPORTED_DOC_TYPES ==
    {"application/pdf", "text/plain", "text/markdown", "application/json",
     "text/csv"}

ALL_SUPPORTED_TYPES == SUPPORTED_IMAGE_TYPES \cup SUPPORTED_DOC_TYPES

MAX_FILE_SIZE == 20 * 1024 * 1024

\* The files the user can pick: an image of exactly the largest size, an
\* image one byte larger, and a small archive.
Files ==
    {[name |-> "photo.png", type |-> "image/png", size |-> MAX_FILE_SIZE,
      data |-> "b64-photo"],
     [name |-> "big.png", type |-> "image/png", size |-> MAX_FILE_SIZE + 1,
      data |-> "b64-big"],
     [name |-> "app.zip", type |-> "application/zip", size |-> 1,
      data |-> "b64-app"]}

\* event.target.files: what one use of the file dialog hands over.
FileLists == UNION {[1..n -> Files] : n \in 1..MaxFiles}

\* Every file of a supported type taken, whatever its size.
accepts_anySize(file) == file.type \in ALL_SUPPORTED_TYPES

\* The two checks of handleFileSelect a file has to pass.
accepts(file) ==
    /\ file.type \in ALL_SUPPORTED_TYPES
    /\ ~(file.size > MAX_FILE_SIZE)

\* The IFileAttachment made of a file that was read.
attachmentOf(file) ==
    [name |-> file.name, type |-> file.type, data |-> file.data,
     previewUrl |-> IF file.type \in SUPPORTED_IMAGE_TYPES
                    THEN "blob" ELSE "undefined"]

RECURSIVE newAttachments(_, _, _)
\* The for loop of handleFileSelect from file i on; unreadable holds the
\* positions of the files fileToBase64 fails to read (none, or all of them).
newAttachments(files, unreadable, i) ==
    IF i > Len(files) THEN <<>>
    ELSE (IF accepts(files[i]) /\ i \notin unreadable
          THEN <<attachmentOf(files[i])>> ELSE <<>>)
         \o newAttachments(files, unreadable, i + 1)

\* prev.filter((_, i) => i !== index)
removeAt(l, index) ==
    [i \in 1..(Len(l) - 1) |-> IF i < index THEN l[i] ELSE l[i + 1]]

\* What the user can have typed into the input.
InputTexts == {<<>>, <<" ">>, <<" ", "q", " ">>}

\* The response bodies of the conversations followed over several turns.
ChatBodies == {<<"Da", "End">>, <<"Err">>}

\* -------------------------------------------------------------------- state
VARIABLES
    messageList,        \* useState<IChatItem[]>: the rendered conversation
    isResponding,       \* useState(false): true while waiting for the reply
    pc,                 \* where the turn is: idle, fetch, read, line, or ended
    wire,               \* the bytes of the response body
    pos,                \* how many of them the reader has delivered
    buffer,             \* handleMessages: let buffer = ""
    chatItem,           \* handleMessages: let chatItem = null
    accumulatedContent, \* handleMessages: let accumulatedContent = ""
    isStreaming,        \* handleMessages: let isStreaming = true
    nextId,             \* source of Date.now() / crypto.randomUUID() ids
    sent,               \* history: the frames the body was built from
    lines,              \* history: every line the decoder has cut off
    processed,          \* history: the payloads handled as events
    whole,              \* history: the body arrived as one single chunk
    endSeen,            \* history: a stream_end event has been handled
    last,               \* history: what the latest step of the turn did
    inputText,          \* ChatInput: useState<string>("")
    attachments,        \* ChatInput: useState<IFileAttachment[]>([])
    request,            \* history: the body of the latest POST /chat
    turn,               \* history: how many messages were sent
    \* the start-up version gate
    cfg,                \* system.txt, agent.yaml and the environment
    store,              \* the hash of the last deployment, as persisted
    storeCfg,           \* history: the configuration that hash was made of
    published,          \* versions of the agent created at the provider
    phase,              \* the process: down, up, or failed at start-up
    call,               \* history: what the latest start-up did
    \* the /chat endpoint
    provider,           \* what agent_response still has to deliver
    out,                \* the frames yielded to the client so far
    rpc,                \* generate_response: idle, streaming or closed
    bridge,             \* ToolApprovalBridge: Idle or AwaitingApproval
    approvals,          \* the approval responses sent to the provider
    script,             \* history: all agent_response does in this turn
    \* the citation formatter
    citeIn,             \* the text handed to format
    citeOut,            \* what format returned for it
    \* the Markdown component
    imgIn,              \* the content handed to extractImagesFromContent
    imgOut              \* the segments it returned; <<>> before any call

clientVars == <<messageList, isResponding, pc, wire, pos, buffer, chatItem,
                accumulatedContent, isStreaming, nextId, sent, lines,
                processed, whole, endSeen, last, inputText, attachments,
                request, turn>>

inputVars == <<inputText, attachments, request, turn>>

publishVars == <<cfg, store, storeCfg, published, phase, call>>

relayVars == <<provider, out, rpc, bridge, approvals, script>>

citeVars == <<citeIn, citeOut>>

imageVars == <<imgIn, imgOut>>

serverVars == <<publishVars, relayVars, citeVars, imageVars>>

vars == <<clientVars, publishVars, relayVars, citeVars, imageVars>>

\* chatItem === null
NoItem == [id |-> 0, content |-> <<>>]

\* userMessage; attachments is the empty list when none are passed
userItem(id, text, atts) ==
    [id |-> id, role |-> "user", content |-> text, isAnswer |-> FALSE,
     attachments |-> atts]

\* { ...chatItem }: the assistant item has isAnswer and no role field
assistantItem(item) ==
    [id |-> item.id, role |-> "undefined", content |-> item.content,
     isAnswer |-> TRUE, attachments |-> <<>>]

\* att => ({ name: att.name, type: att.type, data: att.data })
wireAttachment(att) == [name |-> att.name, type |-> att.type, data |-> att.data]

\* The entry of postData.messages made from a list item: role is item.role,
\* which JSON.stringify leaves out when it is undefined.
wireMessage(item) ==
    [role |-> item.role, content |-> item.content,
     attachments |-> [i \in 1..Len(item.attachments) |->
                        wireAttachment(item.attachments[i])]]

\* postData = { messages }
postData(items) == [messages |-> [i \in 1..Len(items) |-> wireMessage(items[i])]]

\* No request has been made.
NoRequest == [messages |-> <<>>]

\* prev.slice(0, -1)
sliceButLast(l) == IF l = <<>> THEN <<>> ELSE SubSeq(l, 1, Len(l) - 1)

NoStep == [op |-> "none", body |-> "none"]

Init ==
    /\ messageList = <<>>
    /\ isResponding = FALSE
    /\ pc = "idle"
    /\ wire = <<>>
    /\ pos = 0
    /\ buffer = <<>>
    /\ chatItem = NoItem
    /\ accumulatedContent = <<>>
    /\ isStreaming = TRUE
    /\ nextId = 1
    /\ sent = <<>>
    /\ lines = <<>>
    /\ processed = <<>>
    /\ whole = FALSE
    /\ endSeen = FALSE
    /\ last = NoStep
    /\ inputText = <<>>
    /\ attachments = <<>>
    /\ request = NoRequest
    /\ turn = 0
    /\ cfg = DefaultConfig
    /\ store = NoRecord
    /\ storeCfg = DefaultConfig
    /\ published = 0
    /\ phase = "down"
    /\ call = NoCall
    /\ provider = <<>>
    /\ out = <<>>
    /\ rpc = "idle"
    /\ bridge = Idle
    /\ approvals = <<>>
    /\ script = <<>>
    /\ citeIn = <<>>
    /\ citeOut = NoFormat
    /\ imgIn = <<>>
    /\ imgOut = <<>>

turnVars == <<wire, pos, buffer, chatItem, accumulatedContent, isStreaming,
              sent, lines, processed, whole, endSeen>>

\* The words a user can type.
UserTexts == {<<"q">>}

\* onSend(message, attachments) up to its await of fetch: the user message
\* is added to the list, the request is built from the list of this render
\* and the user message, and the responding flag is set.
send(message, atts) ==
    /\ messageList' = Append(messageList, userItem(nextId, message, atts))
    /\ request' = postData(Append(messageList, userItem(nextId, message, atts)))
    /\ nextId' = nextId + 1
    /\ turn' = turn + 1
    /\ isResponding' = TRUE
    /\ pc' = "fetch"
    /\ last' = [op |-> "send", body |-> "none"]

\* The first message of a conversation, sent without attachments.
onSend ==
    /\ pc = "idle"
    /\ ~isResponding
    /\ \E text \in UserTexts : send(text, <<>>)
    /\ UNCHANGED <<inputText, attachments>>
    /\ UNCHANGED turnVars
    /\ UNCHANGED serverVars

\* fetch rejects, or response.body is null: the catch block clears the flag.
fetchThrows ==
    /\ pc = "fetch"
    /\ isResponding' = FALSE
    /\ pc' = "fetch_failed"
    /\ last' = [op |-> "fetch_throws", body |-> "none"]
    /\ UNCHANGED <<messageList, nextId>>
    /\ UNCHANGED turnVars
    /\ UNCHANGED <<inputVars, serverVars>>

\* !response.ok: logged, then return.
fetchNotOk ==
    /\ pc = "fetch"
    /\ pc' = "fetch_failed"
    /\ last' = [op |-> "fetch_not_ok", body |-> "none"]
    /\ UNCHANGED <<messageList, isResponding, nextId>>
    /\ UNCHANGED turnVars
    /\ UNCHANGED <<inputVars, serverVars>>

\* The response is OK: handleMessages(response.body) sets up its locals and
\* readStream runs to its first await of reader.read().
handleMessagesOf(bodies) ==
    /\ pc = "fetch"
    /\ \E ks \in bodies :
         /\ sent' = ks
         /\ wire' = Wire(ks)
    /\ pos' = 0
    /\ buffer' = <<>>
    /\ chatItem' = NoItem
    /\ accumulatedContent' = <<>>
    /\ isStreaming' = TRUE
    /\ lines' = <<>>
    /\ processed' = <<>>
    /\ whole' = FALSE
    /\ endSeen' = FALSE
    /\ pc' = "read"
    /\ last' = [op |-> "handle", body |-> "none"]
    /\ UNCHANGED <<messageList, isResponding, nextId>>
    /\ UNCHANGED <<inputVars, serverVars>>

handleMessages == handleMessagesOf(Bodies)

\* while (boundary !== -1)
loopPc(buf) == IF indexOf(buf, NL, 1) # 0 THEN "line" ELSE "read"

\* A completed message appended to the deltas instead of replacing them.
completedContent_appended(acc, b) == acc \o contentOf(b)

\* clearAssistantMessage(chatItem); accumulatedContent = data.content
completedContent(acc, b) == contentOf(b)

\* A delta put in the place of the text accumulated before it.
deltaContent_replaces(acc, b) == contentOf(b)

\* accumulatedContent += data.content
deltaContent(acc, b) == acc \o contentOf(b)

\* An error event after which the line loop goes on.
afterError_continues(buf) == loopPc(buf)

\* return, in the error branch: readStream is over
afterError(buf) == "returned"

\* break, in the stream_end branch: it leaves the inner while loop, and the
\* outer while (true) awaits the next reader.read()
afterStreamEnd(buf) == "read"

\* A parse failure that ends the turn.
afterParseError_aborts(buf) == "returned"

\* catch (err): boundary = buffer.indexOf("\n"); continue
afterParseError(buf) == loopPc(buf)

\* reader.read() resolves with done: the outer loop is left.
readDone ==
    /\ pc = "read"
    /\ pos = Len(wire)
    /\ pc' = "done"
    /\ last' = [op |-> "read_done", body |-> "none"]
    /\ UNCHANGED <<messageList, isResponding, nextId>>
    /\ UNCHANGED turnVars
    /\ UNCHANGED <<inputVars, serverVars>>

\* reader.read() resolves with the next n bytes: they are decoded and
\* appended to the buffer, and the first boundary is looked up.
readChunkOf(sizes) ==
    /\ pc = "read"
    /\ pos < Len(wire)
    /\ \E n \in sizes :
         /\ buffer' = buffer \o SubSeq(wire, pos + 1, pos + n)
         /\ pos' = pos + n
         /\ whole' = (pos = 0 /\ n = Len(wire))
    /\ pc' = loopPc(buffer')
    /\ last' = [op |-> "read", body |-> "none"]
    /\ UNCHANGED <<messageList, isResponding, nextId, wire, chatItem,
                   accumulatedContent, isStreaming, sent, lines, processed,
                   endSeen>>
    /\ UNCHANGED <<inputVars, serverVars>>

\* The bytes may be cut anywhere.
readChunk == readChunkOf(1..(Len(wire) - pos))

\* createAssistantMessageDiv when chatItem is null
itemOrNew == IF chatItem = NoItem THEN [id |-> nextId, content |-> <<>>]
             ELSE chatItem

listWithItem ==
    IF chatItem = NoItem
    THEN Append(messageList, assistantItem([id |-> nextId, content |-> <<>>]))
    ELSE messageList

\* appendAssistantMessage(chatItem, content, isStreaming) after the item has
\* been created if it was missing: the last item of the list is replaced.
showContent(content) ==
    /\ chatItem' = [itemOrNew EXCEPT !.content = content]
    /\ messageList' = Append(sliceButLast(listWithItem), assistantItem(chatItem'))
    /\ nextId' = IF chatItem = NoItem THEN nextId + 1 ELSE nextId

\* One pass of the inner while loop: the first line is cut off the buffer
\* and, when it is a data line whose payload parses, handled as an event.
processLine ==
    /\ pc = "line"
    /\ LET boundary == indexOf(buffer, NL, 1)
           chunk    == trim(SubSeq(buffer, 1, boundary - 1))
           data     == JSONparse(slice6(chunk))
           b        == data.body
       IN
       /\ buffer' = SubSeq(buffer, boundary + 1, Len(buffer))
       /\ lines' = Append(lines, chunk)
       /\ IF ~startsWith(chunk, DATA_PREFIX)
          THEN \* not a data line
               /\ pc' = loopPc(buffer')
               /\ last' = [op |-> "skip", body |-> "none"]
               /\ UNCHANGED <<messageList, isResponding, nextId, chatItem,
                              accumulatedContent, isStreaming, processed,
                              endSeen>>
          ELSE IF ~data.ok
          THEN \* JSON.parse threw: logged, continue
               /\ pc' = afterParseError(buffer')
               /\ last' = [op |-> "parse_error", body |-> "none"]
               /\ UNCHANGED <<messageList, isResponding, nextId, chatItem,
                              accumulatedContent, isStreaming, processed,
                              endSeen>>
          ELSE IF data.isNull
          THEN \* data.error on null throws; readStream rejects
               /\ pc' = "failed"
               /\ last' = [op |-> "type_error", body |-> b]
               /\ UNCHANGED <<messageList, isResponding, nextId, chatItem,
                              accumulatedContent, isStreaming, processed,
                              endSeen>>
          ELSE IF hasError(b)
          THEN /\ isResponding' = FALSE
               /\ showContent(IF errorMessage(b) # <<>> THEN errorMessage(b)
                              ELSE DefaultErrorMessage)
               /\ processed' = Append(processed, b)
               /\ pc' = afterError(buffer')
               /\ last' = [op |-> "error", body |-> b]
               /\ UNCHANGED <<accumulatedContent, isStreaming, endSeen>>
          ELSE IF typeOf(b) = "stream_end"
          THEN /\ isResponding' = FALSE
               /\ endSeen' = TRUE
               /\ processed' = Append(processed, b)
               /\ pc' = afterStreamEnd(buffer')
               /\ last' = [op |-> "stream_end", body |-> b]
               /\ UNCHANGED <<messageList, nextId, chatItem,
                              accumulatedContent, isStreaming>>
          ELSE IF typeOf(b) = "completed_message"
          THEN /\ accumulatedContent' = completedContent(accumulatedContent, b)
               /\ isStreaming' = FALSE
               /\ isResponding' = FALSE
               /\ showContent(accumulatedContent')
               /\ processed' = Append(processed, b)
               /\ pc' = loopPc(buffer')
               /\ last' = [op |-> "completed", body |-> b]
               /\ UNCHANGED endSeen
          ELSE /\ accumulatedContent' = deltaContent(accumulatedContent, b)
               /\ showContent(accumulatedContent')
               /\ processed' = Append(processed, b)
               /\ pc' = loopPc(buffer')
               /\ last' = [op |-> "delta", body |-> b]
               /\ UNCHANGED <<isResponding, isStreaming, endSeen>>
    /\ UNCHANGED <<wire, pos, sent, whole>>
    /\ UNCHANGED <<inputVars, serverVars>>

\* New Chat: the list is cleared.  The button is never disabled; a click is
\* handled while the turn is suspended at an await or has ended.
newThread ==
    /\ pc # "line"
    /\ messageList # <<>>
    /\ messageList' = <<>>
    /\ last' = [op |-> "new_thread", body |-> "none"]
    /\ UNCHANGED <<isResponding, pc, nextId>>
    /\ UNCHANGED turnVars
    /\ UNCHANGED <<inputVars, serverVars>>

Next ==
    \/ onSend
    \/ fetchThrows
    \/ fetchNotOk
    \/ handleMessages
    \/ readDone
    \/ readChunk
    \/ processLine
    \/ newThread

Spec == Init /\ [][Next]_vars

\* ------------------------------------------- one turn, payloads of every mark
handleMessagesMarks == handleMessagesOf(MarkBodies)

NextInterpret ==
    \/ onSend
    \/ handleMessagesMarks
    \/ readDone
    \/ readChunk
    \/ processLine

SpecInterpret == Init /\ [][NextInterpret]_vars

\* ------------------------------------------------- the chat input, over turns
\* onChange of the input: setInputText(d.value).  Only onMessageSend reads
\* the text, and it cannot run while the reply is awaited, so what is typed
\* meanwhile acts as typed afterwards.
typeText ==
    /\ ~isResponding
    /\ \E text \in InputTexts \ {inputText} : inputText' = text
    /\ UNCHANGED <<attachments, request, turn>>
    /\ UNCHANGED <<messageList, isResponding, pc, nextId, last>>
    /\ UNCHANGED turnVars
    /\ UNCHANGED serverVars

\* handleFileSelect: the files that pass the two checks and can be read are
\* appended to the pending attachments.  The attach button is disabled while
\* the reply is awaited.
handleFileSelect ==
    /\ ~isResponding
    /\ \E files \in FileLists :
         \E unreadable \in {{}, 1..Len(files)} :
           LET new == newAttachments(files, unreadable, 1)
           IN  /\ Len(attachments) + Len(new) <= MaxFiles
               /\ attachments' = attachments \o new
               /\ last' = IF \E i \in 1..Len(files) : ~accepts(files[i])
                          THEN [op |-> "file_select", body |-> "rejected"]
                          ELSE last
    /\ UNCHANGED <<inputText, request, turn>>
    /\ UNCHANGED <<messageList, isResponding, pc, nextId>>
    /\ UNCHANGED turnVars
    /\ UNCHANGED serverVars

\* removeAttachment(index)
removeAttachment ==
    /\ \E index \in 1..Len(attachments) :
         attachments' = removeAt(attachments, index)
    /\ UNCHANGED <<inputText, request, turn>>
    /\ UNCHANGED <<messageList, isResponding, pc, nextId, last>>
    /\ UNCHANGED turnVars
    /\ UNCHANGED serverVars

\* The turn before has come to rest: nothing of it is still running.
AtRest == pc \in {"idle", "fetch_failed", "done", "returned", "failed"}

\* A submission let through whatever the input holds.
canSubmit_always(text, atts) == TRUE

\* (text && text.trim() !== "") || attachments.length > 0
canSubmit(text, atts) == trim(text) # <<>> \/ Len(atts) > 0

\* onMessageSend(inputText): when there is text other than white space, or
\* an attachment, onSubmit (onSend) is called with the trimmed text and the
\* pending attachments, and the input and the attachments are cleared.  The
\* send control is disabled while the reply is awaited.
onMessageSend ==
    /\ ~isResponding
    /\ AtRest
    /\ turn < MaxTurns
    /\ canSubmit(inputText, attachments)
    /\ send(trim(inputText), attachments)
    /\ inputText' = <<>>
    /\ attachments' = <<>>
    /\ UNCHANGED turnVars
    /\ UNCHANGED serverVars

handleMessagesChat == handleMessagesOf(ChatBodies)

\* The sizes of the chunks that end with a frame of the body: the server
\* yields whole frames, and a chunk carries one or more of them.
FrameEnds ==
    {n \in 1..(Len(wire) - pos) :
        /\ n >= 2
        /\ wire[pos + n] = NL
        /\ wire[pos + n - 1] = NL}

readFrames == readChunkOf(FrameEnds)

\* New Chat clicked between two turns.
newThreadAtRest == AtRest /\ newThread

NextChat ==
    \/ typeText
    \/ handleFileSelect
    \/ removeAttachment
    \/ onMessageSend
    \/ fetchThrows
    \/ fetchNotOk
    \/ handleMessagesChat
    \/ readDone
    \/ readFrames
    \/ processLine
    \/ newThreadAtRest

SpecChat == Init /\ [][NextChat]_vars

\* ------------------------------------------------------ version gate at start
\* VersionStore.load()
load == store

\* VersionStore.save(fingerprint, agentVersion), when it succeeds
saved(fingerprint, version) ==
    [present |-> TRUE, fingerprint |-> fingerprint, agentVersion |-> version]

\* The configurations one edit away from c: one of name, model, instructions
\* or one entry of the tools mapping is different.
SingleEdits(c) ==
    {[c EXCEPT !.name = n] : n \in AgentNames \ {c.name}}
    \cup {[c EXCEPT !.model = m] : m \in ModelNames \ {c.model}}
    \cup {[c EXCEPT !.instructions = p] :
             p \in SystemPrompts \ {c.instructions}}
    \cup {[c EXCEPT !.tools[e[1]] = e[2]] :
             e \in {x \in ToolNames \X ToolStates : c.tools[x[1]] # x[2]}}

\* system.txt, agent.yaml or the environment is edited.  The configuration
\* is read at start-up only, so an edit made while the process runs acts as
\* one made after it has stopped.
editConfig ==
    /\ phase = "down"
    /\ \E c \in SingleEdits(cfg) : cfg' = c
    /\ call' = [call EXCEPT !.edited = TRUE]
    /\ UNCHANGED <<store, storeCfg, published, phase>>
    /\ UNCHANGED <<clientVars, relayVars, citeVars, imageVars>>

\* The process starts in local mode: the hash of the configuration is
\* compared with the hash of the last deployment, and only when they differ
\* (or there is none) is create_version called and the new hash persisted.
\* create_version may raise, and the save may fail.
ensurePublished ==
    /\ phase = "down"
    /\ published < MaxVersions
    /\ LET hash     == fingerprintOf[cfg]
           previous == load
           matches  == previous.present /\ previous.fingerprint = hash
           lostSave == /\ call.result = "published"
                       /\ call.saves = 0
                       /\ ~call.edited
       IN
       IF needsPublish(hash, previous)
       THEN \E publishOk \in BOOLEAN, saveOk \in BOOLEAN,
               err \in PublishErrors :
              LET result == resultOf(publishOk, saveOk)
                  raised == IF publishOk THEN "none" ELSE err
              IN
              /\ published' = IF publishOk THEN published + 1 ELSE published
              /\ IF writes(publishOk, saveOk)
                 THEN /\ store' = saved(hash, published')
                      /\ storeCfg' = cfg
                 ELSE UNCHANGED <<store, storeCfg>>
              /\ phase' = IF result = "published" THEN "up" ELSE "failed"
              /\ call' = [made |-> TRUE,
                          priorPresent |-> previous.present,
                          priorMatches |-> matches,
                          publishes |-> 1,
                          saves |-> IF writes(publishOk, saveOk)
                                    THEN 1 ELSE 0,
                          result |-> result,
                          raised |-> raised,
                          propagated |-> propagate(raised),
                          handle |-> IF result = "published"
                                     THEN published' ELSE 0,
                          afterLostSave |-> lostSave,
                          edited |-> FALSE]
       ELSE /\ phase' = "up"
            /\ call' = [made |-> TRUE,
                        priorPresent |-> previous.present,
                        priorMatches |-> matches,
                        publishes |-> 0,
                        saves |-> 0,
                        result |-> "existing",
                        raised |-> "none",
                        propagated |-> "none",
                        handle |-> previous.agentVersion,
                        afterLostSave |-> lostSave,
                        edited |-> FALSE]
            /\ UNCHANGED <<store, storeCfg, published>>
    /\ UNCHANGED cfg
    /\ UNCHANGED <<clientVars, relayVars, citeVars, imageVars>>

\* The process stops, or has given up at start-up.
shutDown ==
    /\ phase \in {"up", "failed"}
    /\ phase' = "down"
    /\ UNCHANGED <<cfg, store, storeCfg, published, call>>
    /\ UNCHANGED <<clientVars, relayVars, citeVars, imageVars>>

NextPublish ==
    \/ editConfig
    \/ ensurePublished
    \/ shutDown

SpecPublish == Init /\ [][NextPublish]_vars

\* ------------------------------------------------------- the /chat endpoint
\* chat_endpoint: the conversation is sent to the agent and
\* generate_response is handed to StreamingResponse.
chat_endpoint ==
    /\ rpc \in {"idle", "closed"}
    /\ provider' \in ProviderScripts
    /\ script' = provider'
    /\ out' = <<>>
    /\ rpc' = "streaming"
    /\ bridge' = Idle
    /\ approvals' = <<>>
    /\ UNCHANGED <<clientVars, publishVars, citeVars, imageVars>>

\* async for chunk in agent_response: yield the message frame
relayChunk ==
    /\ rpc = "streaming"
    /\ bridge.state = "Idle"
    /\ Head(provider).kind = "chunk"
    /\ out' = Append(out, sse(messagePayload(Head(provider).text)))
    /\ provider' = Tail(provider)
    /\ UNCHANGED <<rpc, bridge, approvals, script>>
    /\ UNCHANGED <<clientVars, publishVars, citeVars, imageVars>>

\* The provider delivers the completed text: it is passed on as the
\* completed_message frame.
relayCompleted ==
    /\ rpc = "streaming"
    /\ bridge.state = "Idle"
    /\ Head(provider).kind = "completed"
    /\ out' = Append(out, sse(completedPayload(Head(provider).text)))
    /\ provider' = Tail(provider)
    /\ UNCHANGED <<rpc, bridge, approvals, script>>
    /\ UNCHANGED <<clientVars, publishVars, citeVars, imageVars>>

\* agent_response is exhausted: the closing frame is yielded and the
\* generator returns.
relayEnd ==
    /\ rpc = "streaming"
    /\ bridge.state = "Idle"
    /\ Head(provider).kind = "exhausted"
    /\ out' = out \o endFrames
    /\ provider' = Tail(provider)
    /\ rpc' = "closed"
    /\ UNCHANGED <<bridge, approvals, script>>
    /\ UNCHANGED <<clientVars, publishVars, citeVars, imageVars>>

\* agent_response raises: the error frame is yielded and the turn is over.
relayError ==
    /\ rpc = "streaming"
    /\ bridge.state = "Idle"
    /\ Head(provider).kind = "raise"
    /\ out' = Append(out, sse(errorPayload(<<"provider error">>)))
    /\ provider' = Tail(provider)
    /\ rpc' = "closed"
    /\ UNCHANGED <<bridge, approvals, script>>
    /\ UNCHANGED <<clientVars, publishVars, citeVars, imageVars>>

\* The agent asks for approval of a tool call: the event is taken off the
\* stream, nothing is yielded to the client, and the bridge holds the request.
approvalRequested ==
    /\ rpc = "streaming"
    /\ bridge.state = "Idle"
    /\ Head(provider).kind = "approval_request"
    /\ bridge' = AwaitingApproval(Head(provider).text)
    /\ provider' = Tail(provider)
    /\ UNCHANGED <<out, rpc, approvals, script>>
    /\ UNCHANGED <<clientVars, publishVars, citeVars, imageVars>>

\* The approval for the held request is sent and accepted; the stream goes on.
approve ==
    /\ rpc = "streaming"
    /\ bridge.state = "AwaitingApproval"
    /\ approvals' = Append(approvals, [id |-> bridge.request, ok |-> TRUE])
    /\ bridge' = afterApproval(bridge)
    /\ UNCHANGED <<provider, out, rpc, script>>
    /\ UNCHANGED <<clientVars, publishVars, citeVars, imageVars>>

\* The approval for the held request is sent and the round trip fails: the
\* error frame is yielded and the turn is over.
approveFails ==
    /\ rpc = "streaming"
    /\ bridge.state = "AwaitingApproval"
    /\ approvals' = Append(approvals, [id |-> bridge.request, ok |-> FALSE])
    /\ bridge' = Idle
    /\ out' = Append(out, sse(errorPayload(<<"approval failed">>)))
    /\ rpc' = afterApprovalFailure
    /\ UNCHANGED <<provider, script>>
    /\ UNCHANGED <<clientVars, publishVars, citeVars, imageVars>>

NextRelay ==
    \/ chat_endpoint
    \/ relayChunk
    \/ relayCompleted
    \/ relayEnd
    \/ relayError
    \/ approvalRequested
    \/ approve
    \/ approveFails

SpecRelay == Init /\ [][NextRelay]_vars


\* ---------------------------------------------------- the citation formatter
\* A response text is formatted.
formatText ==
    /\ \E text \in Texts :
         /\ citeIn' = text
         /\ citeOut' = format(text)
    /\ UNCHANGED <<clientVars, publishVars, relayVars, imageVars>>

NextCitation == formatText

SpecCitation == Init /\ [][NextCitation]_vars

\* ------------------------------------------------------- Markdown component
\* Markdown renders a content: the segments are computed from it.
renderContent ==
    /\ \E content \in Contents :
         /\ imgIn' = content
         /\ imgOut' = segmentsOf[content]
    /\ UNCHANGED <<clientVars, publishVars, relayVars, citeVars>>

NextImages == renderContent

SpecImages == Init /\ [][NextImages]_vars


\* ------------------------------------------------------- derived notions
Ended == {"done", "returned", "failed"}

Last(l) == l[Len(l)]

IsPrefix(p, q) == Len(p) <= Len(q) /\ SubSeq(q, 1, Len(p)) = p

\* The payload a frame carries when its JSON text parses to an object.
BodyOf(k) ==
    CASE k = "Da" -> "msg_a"
      [] k = "Db" -> "msg_b"
      [] k = "Cc" -> "cmp_c"
      [] k = "End" -> "end"
      [] k = "Err" -> "err_e"
      [] k = "ErrEnd" -> "err_end"
      [] k = "ErrCmp" -> "err_cmp"
      [] k = "Oth" -> "oth_u"
      [] k = "Obj" -> "obj_"
      [] OTHER -> "none"

RECURSIVE Events(_)
\* The events of a body in order: the frames whose payload is an object.
Events(ks) ==
    IF ks = <<>> THEN <<>>
    ELSE IF BodyOf(Head(ks)) = "none" THEN Events(Tail(ks))
    ELSE <<BodyOf(Head(ks))>> \o Events(Tail(ks))

Has(ks, K) == \E i \in 1..Len(ks) : ks[i] \in K

\* A body as the endpoint writes it: valid frames only, and a stream_end or
\* error frame is the last one.
WellFormed(ks) ==
    \A i \in 1..Len(ks) :
        /\ ks[i] \in {"Da", "Db", "Cc", "End", "Err"}
        /\ ks[i] \in {"End", "Err"} => i = Len(ks)

RECURSIVE decodeLines(_, _)
\* The lines the inner while loop cuts off a buffer that holds the whole
\* body: it stops at an error event (return), at a null payload (TypeError)
\* and at a stream_end event (break, and the next read is done).
decodeLines(buf, acc) ==
    LET boundary == indexOf(buf, NL, 1)
        chunk    == trim(SubSeq(buf, 1, boundary - 1))
        rest     == SubSeq(buf, boundary + 1, Len(buf))
        data     == JSONparse(slice6(chunk))
    IN  IF boundary = 0 THEN acc
        ELSE IF /\ startsWith(chunk, DATA_PREFIX)
                /\ data.ok
                /\ \/ data.isNull
                   \/ hasError(data.body)
                   \/ typeOf(data.body) = "stream_end"
        THEN Append(acc, chunk)
        ELSE decodeLines(rest, Append(acc, chunk))

\* Decoding the unpartitioned body: one read delivers all of it.
OneChunkLines(w) == decodeLines(w, <<>>)

\* The model's one-chunk runs agree with decodeLines.
OneChunkAgrees == (whole /\ pc \in Ended) => lines = OneChunkLines(wire)

\* The events handled are always an initial part of the body's events.
ProcessedInOrder == IsPrefix(processed, Events(sent))


\* ------------------------------------------------------ claims of the client
\* C1: when a completed_message with content c has just been handled, after
\* any deltas, the assistant item of the turn, which is the last item
\* rendered, has exactly the content c: c replaces the deltas.
C1_CompletedReplaces ==
    last.op = "completed" =>
        /\ chatItem.content = contentOf(last.body)
        /\ messageList # <<>>
        /\ Last(messageList).id = chatItem.id
        /\ Last(messageList).content = contentOf(last.body)

\* Two deltas and then the completed message have been handled.
C1_Witness ==
    /\ last.op = "completed"
    /\ processed = <<"msg_a", "msg_b", "cmp_c">>
    /\ Last(messageList).content = <<"c">>

\* C2 (as claimed): once a stream_end event has been handled, no further
\* chunk is read and no later event changes the rendered conversation.
C2_StreamEndStopsReading ==
    [][endSeen =>
         /\ pos' = pos
         /\ processed' = processed
         /\ (messageList' = messageList \/ last'.op = "new_thread")]_vars

\* An error event has been handled in this turn.
ErrorHandled == \E i \in 1..Len(processed) : hasError(processed[i])

\* C3: once an error event has been handled, no further line is cut off,
\* no further event is handled and no further chunk is read, whatever
\* follows the error in the body.
C3_ErrorTerminates ==
    [][ErrorHandled =>
         /\ pos' = pos
         /\ lines' = lines
         /\ processed' = processed
         /\ chatItem' = chatItem]_vars

\* The error has been handled while a later event is buffered and more
\* bytes are still to come.
C3_Witness ==
    /\ ErrorHandled
    /\ pc = "returned"
    /\ sent = <<"Da", "Err", "Db">>
    /\ indexOf(buffer, DATA_PREFIX, 1) # 0
    /\ pos < Len(wire)

\* C4 (as claimed): when the byte source ends and the body held no
\* stream_end, error or completed_message, the turn has left the
\* responding state.
C4_EndOfSourceClearsResponding ==
    (pc = "done" /\ ~Has(sent, {"End", "Err", "Cc"})) => ~isResponding

\* C5: a data line whose payload fails to parse changes nothing of the turn
\* and does not end it; the events before and after it are handled in
\* order, so a body of deltas, completed messages and malformed lines is
\* handled in full, and no error is shown.
C5_MalformedLineSkipped ==
    /\ [][last'.op = "parse_error" =>
            /\ UNCHANGED <<messageList, isResponding, chatItem,
                           accumulatedContent, isStreaming, processed>>
            /\ pc' \in {"line", "read"}]_vars
    /\ [](ProcessedInOrder /\ (ErrorHandled => Has(sent, {"Err"})))
    /\ []((pc \in Ended /\ ~Has(sent, {"End", "Err", "Null"}))
            => (pc = "done" /\ processed = Events(sent)))

\* A malformed line between two deltas: both deltas have been handled.
C5_Witness ==
    /\ pc = "done"
    /\ sent = <<"Da", "Bad", "Db">>
    /\ processed = <<"msg_a", "msg_b">>
    /\ Last(messageList).content = <<"a", "b">>

\* C6 (as claimed): whatever the partition of a well-formed body into
\* chunks, the lines decoded are those decoded from the body as one chunk.
C6_ReassemblyInvariance ==
    (pc \in Ended /\ WellFormed(sent)) => lines = OneChunkLines(wire)


\* ------------------------------------------------- claims of the version gate
\* The persisted fingerprint is the one of the configuration on disk.
FingerprintCurrent ==
    store.present /\ store.fingerprint = fingerprintOf[cfg]

\* C7: a start that finds the persisted fingerprint equal to the one of the
\* current configuration makes no publish call and creates no version; a
\* start that finds none, or a different one, makes exactly one publish call.
C7_VersionGating ==
    /\ [](call.made =>
            /\ call.priorMatches => call.publishes = 0
            /\ ~call.priorMatches => call.publishes = 1)
    /\ [][(phase = "down" /\ phase' # "down") =>
            /\ call'.made
            /\ call'.priorMatches = FingerprintCurrent
            /\ call'.priorPresent = store.present
            /\ FingerprintCurrent => published' = published
            /\ (~FingerprintCurrent /\ phase' = "up")
                 => published' = published + 1]_vars

\* A restart with an unchanged configuration, after a version was created.
C7_Witness ==
    /\ call.made
    /\ call.priorMatches
    /\ call.publishes = 0
    /\ published = 1
    /\ phase = "up"

\* Two configurations differ in what the claim names: the instructions, the
\* model, or the enabled flag of a tool both have.
DiffersInHashed(c, d) ==
    \/ c.instructions # d.instructions
    \/ c.model # d.model
    \/ \E t \in ToolNames :
         /\ c.tools[t] # "absent"
         /\ d.tools[t] # "absent"
         /\ c.tools[t] # d.tools[t]

\* C10: the fingerprint computed now equals the persisted one when the
\* configuration is the one the persisted fingerprint was computed from, and
\* differs from it when the configuration differs from that one in the
\* instructions, the model or the enabled flag of a tool.
C10_FingerprintStableSensitive ==
    store.present =>
        /\ cfg = storeCfg => fingerprintOf[cfg] = store.fingerprint
        /\ DiffersInHashed(cfg, storeCfg)
             => fingerprintOf[cfg] # store.fingerprint

\* Only the enabled flag of one tool was changed since the last deployment.
C10_Witness ==
    /\ store.present
    /\ cfg.name = storeCfg.name
    /\ cfg.instructions = storeCfg.instructions
    /\ cfg.model = storeCfg.model
    /\ cfg.tools["code_interpreter"] = storeCfg.tools["code_interpreter"]
    /\ cfg.tools["bing_search"] = "enabled"
    /\ storeCfg.tools["bing_search"] = "disabled"
    /\ fingerprintOf[cfg] # store.fingerprint

\* ------------------------------------------------- claims of the /chat stream
IsErrorFrame(f) == "error" \in DOMAIN f.json

IsEndFrame(f) == "type" \in DOMAIN f.json /\ f.json.type = "stream_end"

IsTerminalFrame(f) == IsErrorFrame(f) \/ IsEndFrame(f)

OnlyNameDiffers(c, d) ==
    /\ c.name # d.name
    /\ c.model = d.model
    /\ c.instructions = d.instructions
    /\ c.tools = d.tools

\* C11: when the configuration differs from the deployed one in the agent
\* name only, its fingerprint differs from the persisted one, and the start
\* that finds it so creates a version.
C11_NameChangeRepublishes ==
    /\ []((store.present /\ OnlyNameDiffers(cfg, storeCfg))
            => fingerprintOf[cfg] # store.fingerprint)
    /\ [][(/\ phase = "down"
           /\ phase' = "up"
           /\ store.present
           /\ OnlyNameDiffers(cfg, storeCfg))
            => published' = published + 1]_vars

\* The agent was renamed after a deployment, and the process started again.
C11_Renamed ==
    /\ store.present
    /\ OnlyNameDiffers(cfg, storeCfg)
    /\ phase = "up"
    /\ call.priorMatches
    /\ call.publishes = 0

NoTools(c) == \A t \in ToolNames : c.tools[t] = "absent"

AllDisabled(c) == \A t \in ToolNames : c.tools[t] = "disabled"

\* One configuration has no tool and the other has every tool, disabled;
\* name, model and instructions are the same.
ZeroVersusDisabled(c, d) ==
    /\ c.name = d.name
    /\ c.model = d.model
    /\ c.instructions = d.instructions
    /\ \/ NoTools(c) /\ AllDisabled(d)
       \/ AllDisabled(c) /\ NoTools(d)

C13_PublishFailurePropagates ==
    /\ [](call.result = "error" =>
            /\ call.raised \in PublishErrors
            /\ call.propagated = call.raised
            /\ call.publishes = 1
            /\ call.saves = 0
            /\ call.handle = 0)
    /\ [][(phase = "down" /\ phase' = "failed") =>
            /\ call'.result = "error"
            /\ store' = store
            /\ published' = published]_vars
    /\ [][(phase = "failed" /\ phase' # "failed") =>
            /\ phase' = "down"
            /\ store' = store
            /\ published' = published]_vars

\* A deployment exists, the configuration was changed, and the publish call
\* of the next start failed: the record still is the one of the deployment.
C13_Witness ==
    /\ phase = "failed"
    /\ call.result = "error"
    /\ call.propagated = "ServiceRequestError"
    /\ store.present
    /\ store.agentVersion = 1
    /\ published = 1
    /\ fingerprintOf[cfg] # store.fingerprint

\* C14: a start whose publish call succeeds and whose save fails returns the
\* handle of the version just created and no error, leaves the persisted
\* record as it was, and the next start with the same configuration makes
\* exactly one publish call.
C14_LostSaveRepublishes ==
    /\ []((call.result = "published" /\ call.saves = 0) =>
            /\ call.propagated = "none"
            /\ call.handle = published
            /\ phase \in {"up", "down"}
            /\ ~call.edited => needsPublish(fingerprintOf[cfg], store))
    /\ [](call.afterLostSave => call.publishes = 1)
    /\ [][(/\ phase = "down"
           /\ phase' # "down"
           /\ call.result = "published"
           /\ call.saves = 0
           /\ ~call.edited)
            => /\ call'.afterLostSave
               /\ call'.publishes = 1
               /\ published' \in {published, published + 1}]_vars
    /\ [][(published' = published + 1 /\ call'.saves = 0) =>
            /\ store' = store
            /\ call'.result = "published"
            /\ call'.handle = published'
            /\ phase' = "up"]_vars

\* The save of the first deployment failed, the process was started again
\* with the same configuration, and a second version was published.
C14_Witness ==
    /\ call.afterLostSave
    /\ call.publishes = 1
    /\ call.result = "published"
    /\ call.handle = 2
    /\ published = 2
    /\ phase = "up"

\* C15: the persisted record changes only in the step of a start, only
\* together with the creation of a version, and to the fingerprint of the
\* configuration and that version; a start counts at most one save; a start
\* that finds the fingerprints equal makes no save and no publish call and
\* leaves the record as it was.
C15_StoreWrittenOncePerStart ==
    /\ [](call.saves \in {0, 1})
    /\ [](call.saves = 1 => (call.publishes = 1 /\ call.result = "published"))
    /\ [](call.priorMatches => (call.saves = 0 /\ call.publishes = 0))
    /\ [][store' # store =>
            /\ phase = "down"
            /\ phase' = "up"
            /\ published' = published + 1
            /\ call'.saves = 1
            /\ store' = saved(fingerprintOf[cfg], published')]_vars
    /\ [][(phase # "down" \/ phase' = "down") => store' = store]_vars
    /\ [][(phase = "down" /\ phase' # "down" /\ FingerprintCurrent) =>
            /\ store' = store
            /\ published' = published
            /\ call'.saves = 0
            /\ call'.publishes = 0
            /\ call'.result = "existing"]_vars

\* A version was published and its fingerprint saved, and the process was
\* started again with that configuration: the start returned the handle of
\* the existing version and saved nothing.
C15_Witness ==
    /\ call.priorMatches
    /\ call.saves = 0
    /\ call.publishes = 0
    /\ call.result = "existing"
    /\ store = saved(fingerprintOf[DefaultConfig], 1)
    /\ call.handle = 1
    /\ published = 1
    /\ phase = "up"

\* ------------------------------------------- claims of the approval bridge
\* The events agent_response has delivered so far in this turn.
Consumed == SubSeq(script, 1, Len(script) - Len(provider))

RECURSIVE requestsOf(_)
\* The ids of the approval requests among events, in order.
requestsOf(events) ==
    IF events = <<>> THEN <<>>
    ELSE (IF Head(events).kind = "approval_request"
          THEN <<Head(events).text>> ELSE <<>>)
         \o requestsOf(Tail(events))

RECURSIVE framesOf(_)
\* The frames the client is owed for events: one per chunk and per completed
\* text, the closing frame when the provider ran out, the error frame when it
\* raised, and none for an approval request.
framesOf(events) ==
    IF events = <<>> THEN <<>>
    ELSE LET e == Head(events)
         IN  (CASE e.kind = "chunk" -> <<sse(messagePayload(e.text))>>
                [] e.kind = "completed" -> <<sse(completedPayload(e.text))>>
                [] e.kind = "exhausted" -> endFrames
                [] e.kind = "raise" ->
                     <<sse(errorPayload(<<"provider error">>))>>
                [] OTHER -> <<>>)
             \o framesOf(Tail(events))

ApprovalFailed == approvals # <<>> /\ ~Last(approvals).ok

\* The ids the approvals were sent for, in order.
ApprovedIds == [i \in 1..Len(approvals) |-> approvals[i].id]

C17_ApprovalFailureTerminates ==
    /\ [](ApprovalFailed =>
            /\ rpc = "closed"
            /\ bridge = Idle
            /\ out # <<>>
            /\ Last(out) = sse(errorPayload(<<"approval failed">>))
            /\ out = Append(framesOf(Consumed), Last(out)))
    /\ [][(~ApprovalFailed /\ ApprovalFailed') =>
            /\ bridge.state = "AwaitingApproval"
            /\ out' = Append(out, sse(errorPayload(<<"approval failed">>)))]_vars
    /\ [][ApprovalFailed =>
            \/ out' = out
            \/ (out' = <<>> /\ approvals' = <<>>)]_vars

\* The approval failed after a chunk had been relayed, with a chunk still to
\* come: the stream holds the chunk's frame and the error frame.
C17_Witness ==
    /\ ApprovalFailed
    /\ rpc = "closed"
    /\ Len(out) = 2
    /\ out[1] = sse(messagePayload(<<"a">>))
    /\ IsErrorFrame(out[2])
    /\ provider # <<>>
    /\ Head(provider).kind = "chunk"

\* ---------------------------------------------- claims of the formatter
\* The positions of text that hold a marker.
MarkerPositions(text) == {i \in 1..Len(text) : text[i] \in Markers}

\* The position at which the marker of position i occurs first.
FirstOccurrence(text, i) ==
    CHOOSE j \in 1..i :
        /\ text[j] = text[i]
        /\ \A k \in 1..(j - 1) : text[k] # text[i]

\* The number of distinct markers in text up to position i.
DistinctUpTo(text, i) ==
    Cardinality({text[j] : j \in MarkerPositions(text) \cap 1..i})

\* C18: the formatted text has the words of the input where they were and,
\* at the place of every marker, the footnote reference whose ordinal is the
\* number of distinct markers up to the first occurrence of that marker (so
\* ordinals start at 1, follow first-seen order, and a repeated marker has
\* the ordinal of its first occurrence); the sources list has one entry for
\* each distinct marker, the k-th with ordinal k and the title of the marker
\* numbered k.
C18_CitationNumbering ==
    /\ Len(citeOut.text) = Len(citeIn)
    /\ \A i \in 1..Len(citeIn) :
         IF citeIn[i] \in Markers
         THEN citeOut.text[i]
                = footnote(DistinctUpTo(citeIn, FirstOccurrence(citeIn, i)))
         ELSE citeOut.text[i] = citeIn[i]
    /\ Len(citeOut.sources) = DistinctUpTo(citeIn, Len(citeIn))
    /\ \A k \in 1..Len(citeOut.sources) :
         /\ citeOut.sources[k].ordinal = k
         /\ \E i \in MarkerPositions(citeIn) :
              /\ citeOut.text[i] = footnote(k)
              /\ citeOut.sources[k].title = titleOf(citeIn[i])

\* A marker, a second marker, the first marker again, with a word between.
C18_Witness ==
    /\ citeIn = <<"[4:1|guide.md]", "[4:0|doc.md]", "x", "[4:1|guide.md]">>
    /\ citeOut.text = <<"[1]", "[2]", "x", "[1]">>
    /\ citeOut.sources = <<[ordinal |-> 1, title |-> "guide"],
                           [ordinal |-> 2, title |-> "doc"]>>

\* ------------------------------------------------- claims of the chat input
\* A file handleFileSelect has to turn away.
Rejected(file) ==
    \/ file.type \notin ALL_SUPPORTED_TYPES
    \/ file.size > MAX_FILE_SIZE

\* The attachment list atts holds the file.
Holds(atts, file) ==
    \E i \in 1..Len(atts) :
        atts[i].name = file.name \/ atts[i].data = file.data

\* C19: no file of an unsupported type or of more than MAX_FILE_SIZE bytes
\* is among the pending attachments, in a message of the conversation, or in
\* a message of a chat request.
C19_RejectedNeverSent ==
    \A file \in Files :
        Rejected(file) =>
            /\ ~Holds(attachments, file)
            /\ \A i \in 1..Len(messageList) :
                 ~Holds(messageList[i].attachments, file)
            /\ \A i \in 1..Len(request.messages) :
                 ~Holds(request.messages[i].attachments, file)

\* A request went out with the image of the largest size allowed; after it
\* a file that is turned away was picked and nothing became pending.
C19_Witness ==
    /\ last = [op |-> "file_select", body |-> "rejected"]
    /\ attachments = <<>>
    /\ request.messages # <<>>
    /\ request.messages[1].attachments
         = <<[name |-> "photo.png", type |-> "image/png",
              data |-> "b64-photo"]>>

C20_HistorySent ==
    /\ turn = 2
    /\ Len(request.messages) = 3
    /\ request.messages[1].role = "user"
    /\ request.messages[2].content = <<"a">>
    /\ request.messages[2].role = "undefined"
    /\ request.messages[3].role = "user"

\* --------------------------------------------- claims of the event handling
\* The line the inner loop is about to cut off the buffer.
CurrentLine == trim(SubSeq(buffer, 1, indexOf(buffer, NL, 1) - 1))

\* The value parsed from the line, when it is a data line.
CurrentData == JSONparse(slice6(CurrentLine))

\* The next pass of the inner loop handles an event: the line is a data line
\* and its payload parses to an object.
LineIsEvent ==
    /\ pc = "line"
    /\ startsWith(CurrentLine, DATA_PREFIX)
    /\ CurrentData.ok
    /\ ~CurrentData.isNull

\* The marks of a payload, read off its fields.
ErrorMarked == {"err_e", "err_", "err_end", "err_cmp"}

EndMarked == {"end", "err_end"}

CompletedMarked == {"cmp_c", "err_cmp"}

\* The kind an event is to be handled as, by priority of its marks.
KindByPriority(b) ==
    IF b \in ErrorMarked THEN "error"
    ELSE IF b \in EndMarked THEN "stream_end"
    ELSE IF b \in CompletedMarked THEN "completed"
    ELSE "delta"

\* C21: every event is handled as the kind its marks give it by the priority
\* error, stream_end, completed_message, delta.  Handled as an error: the
\* responding flag is cleared, the error message is rendered and readStream
\* returns; as stream_end: the flag is cleared and nothing is rendered; as
\* completed_message: the content replaces the accumulated text; as a delta:
\* the content is appended to it.
C21_ClassificationPriority ==
    [][LineIsEvent =>
         LET b == CurrentData.body
             k == KindByPriority(b)
         IN  /\ last' = [op |-> k, body |-> b]
             /\ k = "error" =>
                  /\ pc' = "returned"
                  /\ ~isResponding'
                  /\ chatItem'.content
                       = IF b = "err_" THEN DefaultErrorMessage ELSE <<"e">>
             /\ k = "stream_end" =>
                  /\ endSeen'
                  /\ ~isResponding'
                  /\ messageList' = messageList
             /\ k = "completed" =>
                  /\ accumulatedContent' = <<"c">>
                  /\ chatItem'.content = <<"c">>
             /\ k = "delta" =>
                  /\ accumulatedContent'
                       = accumulatedContent \o contentOf(b)
                  /\ chatItem'.content = accumulatedContent'
                  /\ isResponding' = isResponding
                  /\ ~endSeen' = ~endSeen]_vars

\* A payload with an error and the type stream_end was handled as an error,
\* after a payload of an unknown type had been handled as a delta.
C21_Witness ==
    /\ last = [op |-> "error", body |-> "err_end"]
    /\ processed = <<"oth_u", "err_end">>
    /\ pc = "returned"
    /\ ~endSeen
    /\ Last(messageList).content = <<"e">>

\* The events handled so far that are deltas, in the order of their handling.
DeltasOf(bs) ==
    SelectSeq(bs, LAMBDA b : ~hasError(b) /\ typeOf(b) # "stream_end"
                                /\ typeOf(b) # "completed_message")

RECURSIVE Concat(_)
\* d1 + ... + dn
Concat(bs) ==
    IF bs = <<>> THEN <<>> ELSE contentOf(Head(bs)) \o Concat(Tail(bs))

\* No completed_message and no error has been handled in the turn.
DeltasOnly ==
    \A i \in 1..Len(processed) :
        ~hasError(processed[i]) /\ typeOf(processed[i]) # "completed_message"

\* C22: as long as no completed_message and no error has been handled, the
\* deltas handled are an initial part of the deltas sent, in their order, and
\* the assistant item holds their concatenation; the item exists as soon as
\* one delta was handled, and the item shown in the list has that content.
C22_DeltasConcatenated ==
    DeltasOnly =>
        /\ IsPrefix(DeltasOf(processed), DeltasOf(Events(sent)))
        /\ accumulatedContent = Concat(DeltasOf(processed))
        /\ DeltasOf(processed) # <<>> =>
             /\ chatItem # NoItem
             /\ chatItem.content = Concat(DeltasOf(processed))
        /\ (pc = "line" \/ pc = "read" \/ pc \in Ended) =>
             \A i \in 1..Len(messageList) :
                 messageList[i].isAnswer =>
                     messageList[i].content = Concat(DeltasOf(processed))

\* Two different deltas, b and then a, were handled and the turn has ended
\* with the text ba in the list.
C22_Witness ==
    /\ processed = <<"msg_b", "msg_a", "end">>
    /\ pc = "done"
    /\ Len(messageList) = 2
    /\ Last(messageList).content = <<"b", "a">>

\* The bytes the reads have delivered so far.
Received == SubSeq(wire, 1, pos)

\* The number of line terminators in a text.
Terminators(t) == Cardinality({i \in 1..Len(t) : t[i] = NL})

\* C23 (as claimed): whenever the decoder has finished handling a chunk and
\* turns to the next read, every complete line received so far has been cut
\* off the buffer exactly once, and the buffer holds no line terminator.
C23_BufferHoldsPartialLine ==
    pc = "read" =>
        /\ indexOf(buffer, NL, 1) = 0
        /\ Len(lines) = Terminators(Received)

\* Before a stream_end has been handled, the buffer invariant holds.
BufferInvariantBeforeEnd ==
    (pc = "read" /\ ~endSeen) =>
        /\ indexOf(buffer, NL, 1) = 0
        /\ Len(lines) = Terminators(Received)

\* A completed_message has been handled in this turn.
CompletedHandled == \E i \in 1..Len(processed) : processed[i] = "cmp_c"

\* C24 (as claimed): once a completed_message with content c has been
\* handled, the assistant item keeps the content c for the rest of the turn,
\* whatever events are handled after it.
C24_CompletedContentStays ==
    CompletedHandled =>
        /\ chatItem.content = <<"c">>
        /\ \A i \in 1..Len(messageList) :
               messageList[i].isAnswer => messageList[i].content = <<"c">>

\* A completed_message followed by events that are not deltas or errors
\* leaves the content as it is.
CompletedStaysWithoutLaterText ==
    (/\ CompletedHandled
     /\ \A i \in 1..Len(processed) : processed[i] \in {"cmp_c", "end"}) =>
        chatItem.content = <<"c">>

\* ------------------------------------------------- claims of the send guard
\* s is t without the white space at its two ends.
IsTrimOf(s, t) ==
    /\ s # <<>> => ~isWhitespace(s[1]) /\ ~isWhitespace(s[Len(s)])
    /\ \E i \in 1..(Len(t) + 1) :
           /\ i + Len(s) - 1 <= Len(t)
           /\ SubSeq(t, i, i + Len(s) - 1) = s
           /\ \A j \in 1..Len(t) :
                  (j < i \/ j > i + Len(s) - 1) => isWhitespace(t[j])

\* The text has a character that is not white space.
NonBlank(t) == \E i \in 1..Len(t) : ~isWhitespace(t[i])

\* C25: every submission is made with a text that is not blank or with a
\* pending attachment; the message submitted holds the text without the white
\* space at its ends and the pending attachments, and after the submission
\* the input text and the list of pending attachments are empty.
C25_SubmitGuard ==
    [][turn' = turn + 1 =>
         /\ NonBlank(inputText) \/ Len(attachments) >= 1
         /\ Len(messageList') = Len(messageList) + 1
         /\ Last(messageList').role = "user"
         /\ IsTrimOf(Last(messageList').content, inputText)
         /\ Last(messageList').attachments = attachments
         /\ Last(request'.messages).content = Last(messageList').content
         /\ inputText' = <<>>
         /\ attachments' = <<>>]_vars

\* The text " q " has just been submitted together with one attachment: the
\* message holds q and the attachment, and the input is empty.
C25_Witness ==
    /\ last.op = "send"
    /\ pc = "fetch"
    /\ Last(messageList).content = <<"q">>
    /\ Len(Last(messageList).attachments) = 1
    /\ inputText = <<>>
    /\ attachments = <<>>

\* --------------------------------------------- claims of the image segments
RECURSIVE Spans(_)
\* The text segments and the spans of the image segments, end to end.
Spans(segments) ==
    IF segments = <<>> THEN <<>>
    ELSE Head(segments).span \o Spans(Tail(segments))

\* The content holds no image with a data URI.
NoDataUriImage == \A i \in 1..Len(imgIn) : imgIn[i] # DataUri

\* C26 (as claimed): the text segments and the matched image spans, in the
\* order of the segments, make up the content exactly, and a content without
\* a data URI image gives one text segment equal to the content.
C26_SegmentsReconstruct ==
    imgOut # <<>> =>
        /\ Spans(imgOut) = imgIn
        /\ NoDataUriImage => imgOut = <<TextSegment(imgIn)>>

\* No two matches overlap: every token of the content is in at most one.
NoOverlap ==
    \A i, j \in 1..Len(allMatches(imgIn)) :
        i < j => allMatches(imgIn)[i].index + allMatches(imgIn)[i].length
                   <= allMatches(imgIn)[j].index

\* When no two matches overlap, the segments make up the content.
ReconstructsWithoutOverlap ==
    (imgOut # <<>> /\ NoOverlap) =>
        /\ Spans(imgOut) = imgIn
        /\ NoDataUriImage => imgOut = <<TextSegment(imgIn)>>

\* ------------------------------------------- claims of the responding flag
\* C27 (as claimed): when the request has ended without a response to read,
\* by a rejected fetch or by an answer with a non-OK status, the responding
\* flag set at the send is false again.
C27_RespondingClearedOnFailure ==
    pc = "fetch_failed" => ~isResponding

\* A rejected fetch clears the flag.
RejectedFetchClears ==
    [][last'.op = "fetch_throws" => ~isResponding']_vars

\* ------------------------------------------- claims of the list updates
\* C28 (as claimed): a step of the stream handling leaves every user message
\* of the list in its place and puts nothing into a list that New Chat has
\* cleared.
C28_StreamRewritesOwnItemOnly ==
    [][pc = "line" =>
         /\ \A i \in 1..Len(messageList) :
                messageList[i].role = "user" =>
                    /\ i <= Len(messageList')
                    /\ messageList'[i] = messageList[i]
         /\ messageList = <<>> => messageList' = <<>>]_vars

\* As long as New Chat has not cleared the list, the stream handling leaves
\* the user message in its place and changes the last item only.
OwnItemOnlyWithoutNewChat ==
    [][(pc = "line" /\ messageList # <<>> /\ messageList[1].role = "user") =>
         /\ messageList'[1] = messageList[1]
         /\ Len(messageList') <= 2]_vars

\* ------------------------------------------ claims of the chunk partition
\* What a turn has rendered: whether it has an assistant item, and the
\* content of the item.
NoRender == [shown |-> FALSE, content |-> <<>>]

Shown(text) == [shown |-> TRUE, content |-> text]

RECURSIVE renderLines(_, _)
\* What is rendered after the lines ls have been handled, acc being what was
\* rendered before them.
renderLines(ls, acc) ==
    IF ls = <<>> THEN acc
    ELSE LET data == JSONparse(slice6(Head(ls)))
             b    == data.body
         IN  IF ~startsWith(Head(ls), DATA_PREFIX) \/ ~data.ok \/ data.isNull
             THEN renderLines(Tail(ls), acc)
             ELSE IF hasError(b)
             THEN Shown(IF errorMessage(b) # <<>> THEN errorMessage(b)
                        ELSE DefaultErrorMessage)
             ELSE IF typeOf(b) = "stream_end"
             THEN renderLines(Tail(ls), acc)
             ELSE IF typeOf(b) = "completed_message"
             THEN renderLines(Tail(ls), Shown(contentOf(b)))
             ELSE renderLines(Tail(ls), Shown(acc.content \o contentOf(b)))

\* What is rendered when one read delivers the whole body.
OneChunkRender(w) == renderLines(OneChunkLines(w), NoRender)

\* What the turn has rendered.
Rendered == IF chatItem = NoItem THEN NoRender ELSE Shown(chatItem.content)

\* C29 (as claimed): when the turn has ended, what it has rendered is what
\* the same bytes render when one read delivers them all, whatever the
\* partition into chunks.
C29_RenderIgnoresPartition ==
    pc \in Ended => Rendered = OneChunkRender(wire)

\* The model's one-chunk runs render what OneChunkRender says.
OneChunkRenderAgrees ==
    (whole /\ pc \in Ended) => Rendered = OneChunkRender(wire)

\* Bodies without a stream_end render the same under every partition.
RenderIgnoresPartitionWithoutEnd ==
    (pc \in Ended /\ ~Has(sent, {"End"})) => Rendered = OneChunkRender(wire)

\* ---------------------------------------------- claims of the null payload
\* C30 (as claimed): a data line whose payload is null is skipped as a
\* malformed line is: it changes nothing of the turn, the line loop goes on
\* with the next line, and the reading never ends in a failure.
C30_NullLineSkipped ==
    /\ [][last'.op = "type_error" =>
            /\ UNCHANGED <<messageList, isResponding, chatItem,
                           accumulatedContent, isStreaming, processed>>
            /\ pc' \in {"line", "read"}]_vars
    /\ [](pc # "failed")

\* A null payload changes nothing of what is shown.
NullLineShowsNothing ==
    [][last'.op = "type_error" =>
         UNCHANGED <<messageList, isResponding, chatItem,
                     accumulatedContent, isStreaming, processed>>]_vars

\* Without a null payload the reading never fails.
FailsOnNullOnly == pc = "failed" => Has(sent, {"Null"})

====
